---- MODULE Spec2Model ----
\* A model of the pipeline controller of KGTorrent: the function main() of
\* KGTorrent/kgtorrent.py, one action per statement that calls a collaborator
\* or decides a branch. The collaborators (store adapter, loader,
\* preprocessor, downloader) are opaque: a call is recorded in `calls`, may
\* raise, and otherwise has the effect its name states.
EXTENDS Integers, Sequences, FiniteSets, TLC

VARIABLES
    pc,                   \* the statement main() is about to execute
    command,              \* args.command
    strategy,             \* args.strategy
    matching,             \* args.matching, a list of identifiers
    store,                \* the target database, as the store adapter finds it
    archive,              \* the directory config.nb_archive_path
    exists_ret,           \* what db_engine.db_exists() returned
    ans,                  \* what input() returned
    data,                 \* the local `data`: an archive entry, or None
    proceed,              \* the local `proceed`
    nb_identifiers,       \* the local `nb_identifiers`
    download_identifiers, \* the local `download_identifiers`
    calls,                \* the collaborator calls made so far, in order
    live,                 \* the names of the locals that are bound
    printed,              \* the reports printed so far
    exit                  \* how the process ended

vars == <<pc, command, strategy, matching, store, archive, exists_ret, ans,
          data, proceed, nb_identifiers, download_identifiers, calls, live,
          printed, exit>>

----------------------------------------------------------------------------
\* Bounds of the model.

\* The longest line the operator types at the confirmation prompt.
MaxAnsLen == 3

\* The characters the operator types.
AnsAlphabet == {"y", "Y", "e", "E", "s", "S"}

\* The notebook identifiers there are.
Identifiers == {"a", "b", "c", "d"}

Seqs(S, n) == UNION {[1..k -> S] : k \in 0..n}

Answers == Seqs(AnsAlphabet, MaxAnsLen)

\* The lists the operator gives after --matching: none, one identifier,
\* several, in any order, an identifier given twice.
MatchingLists ==
    {<<>>, <<"a">>, <<"d">>, <<"b", "c">>, <<"c", "b">>, <<"a", "a">>,
     <<"b", "c", "d">>, <<"c", "a", "c">>, <<"d", "b", "c", "b">>,
     <<"a", "b", "c", "d">>}

----------------------------------------------------------------------------
\* The values of the program.

INIT == "init"
REFRESH == "refresh"
DOWNLOAD == "download"

Commands == {INIT, REFRESH, DOWNLOAD}

\* DownloadStrategies.strategies(), of KGTorrent/downloader.py.
DownloadStrategies == {"API", "HTTP"}

SKIP == "SKIP"

StrategyChoices == DownloadStrategies \cup {SKIP}

\* What the operator may type as a command or a strategy.
ArgvCommands == Commands \cup {"update"}
ArgvStrategies == StrategyChoices \cup {"FTP"}

\* The affirmative token of the confirmation prompt.
yes == <<"y", "e", "s">>

Unset == "unset"

\* str.lower(), on the characters of the model.
LowerChar(c) ==
    CASE c = "Y" -> "y"
      [] c = "E" -> "e"
      [] c = "S" -> "s"
      [] OTHER -> c

Lower(s) == [i \in 1..Len(s) |-> LowerChar(s[i])]

\* set(xs) of a list.
ToSet(xs) == {xs[i] : i \in 1..Len(xs)}

----------------------------------------------------------------------------
\* The conditions main() branches on.

\* The answer compared as typed, without lower().
AnsAffirmativeCaseSensitive(a) == a = yes

\* An empty answer taken as the default the prompt shows in brackets.
AnsAffirmativeOrDefault(a) == Lower(a) = yes \/ a = <<>>

\* The strategy taken as given, only the command checked.
ArgsAcceptedCommandOnly(c, s) == c \in Commands

\* The choices of the command argument and of the --strategy option.
ArgsAccepted(c, s) == c \in Commands /\ s \in StrategyChoices

\* Every command but init asked for a confirmation.
PromptsUnlessInit(c) == c # INIT

\* `command == Commands.REFRESH` of the existing-database case: the command
\* that is asked for a confirmation.
Prompts(c) == c = REFRESH

\* A download refused when there is no store to read.
ProceedOnAbsentNotDownload(c) == c # DOWNLOAD

\* `else: proceed = True` of the database check.
ProceedOnAbsent(c) == TRUE

\* `ans.lower() == "yes"`.
AnsAffirmative(a) == Lower(a) = yes

\* Every command that is not asked for a confirmation goes on.
ProceedOnExistingAlways(c, p) == TRUE

\* The value of `proceed` after the branches taken for an existing database
\* by a command that is not asked for a confirmation: init clears the flag,
\* download only prints a message and leaves the flag as it is.
ProceedOnExisting(c, p) == IF c = INIT THEN FALSE ELSE p

\* The folder checked for init alone.
FolderCheckAbortsInitOnly(notNone, c) == notNone /\ c = INIT

\* `(data is not None) and (command == INIT or command == DOWNLOAD)`.
FolderCheckAborts(notNone, c) == notNone /\ (c = INIT \/ c = DOWNLOAD)

\* The stage entered on `proceed` alone.
PreparationRunsAnyCommand(p, c) == p

\* `proceed and (command != Commands.DOWNLOAD)`.
PreparationRuns(p, c) == p /\ c # DOWNLOAD

\* The stage entered whatever `proceed` is.
DownloadStageAlways(p) == TRUE

\* `if proceed:` of the notebook download process.
DownloadStageRuns(p) == p

\* The Downloader used whatever the strategy is.
FetchRunsAlways(s) == TRUE

\* `not args.strategy == "SKIP"`.
FetchRuns(s) == ~(s = SKIP)

\* The filter passed on without the store's identifiers.
DownloadIdentifiersFilterOnly(ids, m) == ToSet(m)

\* An empty filter read as no filter.
DownloadIdentifiersAllIfEmpty(ids, m) ==
    IF m = <<>> THEN ids ELSE ids \cap ToSet(m)

\* `list(set(nb_identifiers) & set(args.matching))`.
DownloadIdentifiers(ids, m) == ids \cap ToSet(m)

\* The store exists when the adapter finds a database of the configured name.
StoreExists == store # "absent"

\* The identifier query answers only when there is a store to query.
QuerySucceeds == StoreExists

----------------------------------------------------------------------------
\* The state before main() parses its arguments. The store and the archive
\* directory are as the operator left them. A local that is not bound yet
\* is absent from `live` and holds the empty value of its type.

Init ==
    /\ pc = "parse_args"
    /\ command = Unset
    /\ strategy = Unset
    /\ matching = <<>>
    /\ store \in {"absent", "old"}
    /\ archive \in {"empty", "nonempty", "missing"}
    /\ exists_ret = FALSE
    /\ ans = <<>>
    /\ data = Unset
    /\ proceed = FALSE
    /\ nb_identifiers = {}
    /\ download_identifiers = {}
    /\ calls = <<>>
    /\ live = {}
    /\ printed = {}
    /\ exit = "running"

\* The exception caught and noted, main() carrying on to its last lines.
RaiseLeavingCaught(call, st) ==
    /\ calls' = Append(calls, call)
    /\ store' = st
    /\ pc' = "end"
    /\ exit' = "exception"
    /\ UNCHANGED <<printed, data, command, strategy, matching, archive,
                   exists_ret, ans, proceed, nb_identifiers,
                   download_identifiers, live>>

\* A collaborator call that raises: nothing in main() catches it, the
\* interpreter ends the process with a traceback.
RaiseLeaving(call, st) ==
    /\ calls' = Append(calls, call)
    /\ store' = st
    /\ pc' = "raised"
    /\ exit' = "exception"
    /\ UNCHANGED <<printed, data, command, strategy, matching, archive,
                   exists_ret, ans, proceed, nb_identifiers,
                   download_identifiers, live>>

Raise(call) == RaiseLeaving(call, store)

\* my_parser.parse_args(): a command or a strategy outside the choices ends
\* the process with a usage error.
ParseArgs ==
    /\ pc = "parse_args"
    /\ \E c \in ArgvCommands, s \in ArgvStrategies, m \in MatchingLists :
        IF ArgsAccepted(c, s)
        THEN /\ command' = c
             /\ strategy' = s
             /\ matching' = m
             /\ live' = live \cup {"args", "command"}
             /\ pc' = "connect"
             /\ exit' = exit
        ELSE /\ pc' = "usage_error"
             /\ exit' = "usage"
             /\ UNCHANGED <<command, strategy, matching, live>>
    /\ UNCHANGED <<printed, data, store, archive, exists_ret, ans, proceed,
                   nb_identifiers, download_identifiers, calls>>

\* db_engine = DB_ENGINE(...), then `proceed = False`.
Connect ==
    /\ pc = "connect"
    /\ \/ /\ calls' = Append(calls, "DB_ENGINE")
          /\ live' = live \cup {"db_engine", "proceed"}
          /\ proceed' = FALSE
          /\ pc' = "db_exists"
          /\ UNCHANGED <<printed, data, command, strategy, matching, store,
                         archive, exists_ret, ans, nb_identifiers,
                         download_identifiers, exit>>
       \/ Raise("DB_ENGINE")

\* `if db_engine.db_exists():` and the branches that do not prompt.
DbExists ==
    /\ pc = "db_exists"
    /\ \/ /\ calls' = Append(calls, "db_exists")
          /\ exists_ret' = StoreExists
          /\ IF StoreExists
             THEN IF Prompts(command)
                  THEN proceed' = proceed /\ pc' = "input"
                  ELSE proceed' = ProceedOnExisting(command, proceed)
                       /\ pc' = "iterdir"
             ELSE proceed' = ProceedOnAbsent(command) /\ pc' = "iterdir"
          /\ printed' = IF StoreExists /\ command = INIT
                        THEN printed \cup {"database already exists"}
                        ELSE printed
          /\ UNCHANGED <<data, command, strategy, matching, store, archive,
                         ans, nb_identifiers, download_identifiers, live,
                         exit>>
       \/ Raise("db_exists")

\* ans = input(...) and the test of the answer. A closed standard input
\* raises EOFError.
Confirm ==
    /\ pc = "input"
    /\ \/ \E a \in Answers :
            /\ calls' = Append(calls, "input")
            /\ ans' = a
            /\ live' = live \cup {"ans"}
            /\ proceed' = AnsAffirmative(a)
            /\ pc' = "iterdir"
            /\ UNCHANGED <<printed, data, command, strategy, matching, store,
                           archive, exists_ret, nb_identifiers,
                           download_identifiers, exit>>
       \/ Raise("input")

\* data = next(Path(config.nb_archive_path).iterdir(), None) and the test of
\* the folder. A path that is no directory raises.
FolderCheck ==
    /\ pc = "iterdir"
    /\ \/ /\ archive # "missing"
          /\ calls' = Append(calls, "iterdir")
          /\ data' = IF archive = "nonempty" THEN "entry" ELSE "None"
          /\ live' = live \cup {"data"}
          /\ proceed' = IF FolderCheckAborts(data' # "None", command)
                        THEN FALSE
                        ELSE proceed
          /\ printed' = IF FolderCheckAborts(data' # "None", command)
                        THEN printed \cup {"download folder is not empty"}
                        ELSE printed
          /\ pc' = "preparation"
          /\ UNCHANGED <<command, strategy, matching, store, archive,
                         exists_ret, ans, nb_identifiers, download_identifiers,
                         exit>>
       \/ /\ archive = "missing"
          /\ Raise("iterdir")

----------------------------------------------------------------------------
\* The data preparation process.

\* `if proceed and (command != Commands.DOWNLOAD):`.
PreparationGate ==
    /\ pc = "preparation"
    /\ pc' = IF PreparationRuns(proceed, command) THEN "DataLoader"
                                                   ELSE "download"
    /\ UNCHANGED <<printed, data, command, strategy, matching, store, archive,
                   exists_ret, ans, proceed, nb_identifiers,
                   download_identifiers, calls, live, exit>>

\* A step of the stage that binds the locals `binds` and leaves the store
\* in the state `st`.
PreparationStep(at, call, binds, st, next) ==
    /\ pc = at
    /\ calls' = Append(calls, call)
    /\ live' = live \cup binds
    /\ store' = st
    /\ pc' = next
    /\ UNCHANGED <<printed, data, command, strategy, matching, archive,
                   exists_ret, ans, proceed, nb_identifiers,
                   download_identifiers, exit>>

\* dl = DataLoader(config.constraints_file_path, config.meta_kaggle_path).
LoadData ==
    \/ PreparationStep("DataLoader", "DataLoader", {"dl"}, store,
                       "MK_PREPROCESSOR")
    \/ pc = "DataLoader" /\ Raise("DataLoader")

\* mk = MK_PREPROCESSOR(dl.get_tables_dict(), dl.get_constraints_df()).
NewPreprocessor ==
    \/ PreparationStep("MK_PREPROCESSOR", "MK_PREPROCESSOR", {"mk"}, store,
                       "preprocess_mk")
    \/ pc = "MK_PREPROCESSOR" /\ Raise("MK_PREPROCESSOR")

\* processed_dict, stats = mk.preprocess_mk().
PreprocessMk ==
    \/ PreparationStep("preprocess_mk", "preprocess_mk",
                       {"processed_dict", "stats"}, store, "create_new_db")
    \/ pc = "preprocess_mk" /\ Raise("preprocess_mk")

\* db_engine.create_new_db(drop_if_exists=True): a failure comes before or
\* after the drop.
CreateNewDb ==
    \/ PreparationStep("create_new_db", "create_new_db", {}, "empty",
                       "write_tables")
    \/ /\ pc = "create_new_db"
       /\ \E st \in {store, "absent"} : RaiseLeaving("create_new_db", st)

\* write_tables called again when it fails.
WriteTablesRetrying ==
    \/ PreparationStep("write_tables", "write_tables", {}, "tables",
                       "set_foreign_keys")
    \/ /\ pc = "write_tables"
       /\ Len(calls) < 10
       /\ calls' = Append(calls, "write_tables")
       /\ store' = "partial"
       /\ UNCHANGED <<pc, printed, data, command, strategy, matching,
                      archive, exists_ret, ans, proceed, nb_identifiers,
                      download_identifiers, live, exit>>

\* db_engine.write_tables(processed_dict): a failure comes before or after
\* the first table is written.
WriteTables ==
    \/ PreparationStep("write_tables", "write_tables", {}, "tables",
                       "set_foreign_keys")
    \/ /\ pc = "write_tables"
       /\ \E st \in {store, "partial"} : RaiseLeaving("write_tables", st)

\* db_engine.set_foreign_keys(dl.get_constraints_df()).
SetForeignKeys ==
    \/ PreparationStep("set_foreign_keys", "set_foreign_keys", {},
                       "constrained", "free")
    \/ pc = "set_foreign_keys" /\ Raise("set_foreign_keys")

\* `del dl` and `del mk`.
FreeMemory ==
    /\ pc = "free"
    /\ live' = live \ {"dl", "mk"}
    /\ pc' = "download"
    /\ UNCHANGED <<printed, data, command, strategy, matching, store, archive,
                   exists_ret, ans, proceed, nb_identifiers,
                   download_identifiers, calls, exit>>

----------------------------------------------------------------------------
\* The notebook download process.

\* `if proceed:`.
DownloadGate ==
    /\ pc = "download"
    /\ pc' = IF DownloadStageRuns(proceed) THEN "get_nb_identifiers"
                                           ELSE "end"
    /\ UNCHANGED <<printed, data, command, strategy, matching, store, archive,
                   exists_ret, ans, proceed, nb_identifiers,
                   download_identifiers, calls, live, exit>>

\* nb_identifiers = db_engine.get_nb_identifiers(config.nb_conf["languages"]):
\* the store answers with any set of identifiers; there is nothing to query
\* in a store that does not exist.
GetNbIdentifiers ==
    /\ pc = "get_nb_identifiers"
    /\ \/ /\ QuerySucceeds
          /\ \E ids \in SUBSET Identifiers :
                nb_identifiers' = ids
          /\ calls' = Append(calls, "get_nb_identifiers")
          /\ live' = live \cup {"nb_identifiers"}
          /\ pc' = "del_db_engine"
          /\ UNCHANGED <<printed, data, command, strategy, matching, store,
                         archive, exists_ret, ans, proceed,
                         download_identifiers, exit>>
       \/ Raise("get_nb_identifiers")

\* The statement left out: the connection stays bound.
DelDbEngineSkipped ==
    /\ pc = "del_db_engine"
    /\ pc' = "strategy"
    /\ UNCHANGED <<printed, data, command, strategy, matching, store,
                   archive, exists_ret, ans, proceed, nb_identifiers,
                   download_identifiers, calls, live, exit>>

\* `del db_engine`.
DelDbEngine ==
    /\ pc = "del_db_engine"
    /\ live' = live \ {"db_engine"}
    /\ pc' = "strategy"
    /\ UNCHANGED <<printed, data, command, strategy, matching, store, archive,
                   exists_ret, ans, proceed, nb_identifiers,
                   download_identifiers, calls, exit>>

\* `if not args.strategy == "SKIP":` and the computation of
\* download_identifiers.
SelectIdentifiers ==
    /\ pc = "strategy"
    /\ IF FetchRuns(strategy)
       THEN /\ download_identifiers' =
                    DownloadIdentifiers(nb_identifiers, matching)
            /\ live' = live \cup {"download_identifiers"}
            /\ pc' = "DOWNLOADER"
       ELSE /\ pc' = "end"
            /\ UNCHANGED <<download_identifiers, live>>
    /\ UNCHANGED <<printed, data, command, strategy, matching, store, archive,
                   exists_ret, ans, proceed, nb_identifiers, calls, exit>>

\* downloader = DOWNLOADER(download_identifiers, config.nb_archive_path).
NewDownloader ==
    /\ pc = "DOWNLOADER"
    /\ \/ /\ calls' = Append(calls, "DOWNLOADER")
          /\ live' = live \cup {"downloader"}
          /\ pc' = "download_notebooks"
          /\ UNCHANGED <<printed, data, command, strategy, matching, store,
                         archive, exists_ret, ans, proceed, nb_identifiers,
                         download_identifiers, exit>>
       \/ Raise("DOWNLOADER")

\* downloader.download_notebooks(strategy=args.strategy): the notebooks it
\* fetches land in the archive directory.
DownloadNotebooks ==
    /\ pc = "download_notebooks"
    /\ \/ /\ calls' = Append(calls, "download_notebooks")
          /\ archive' = IF download_identifiers = {} THEN archive
                                                     ELSE "nonempty"
          /\ pc' = "end"
          /\ UNCHANGED <<printed, data, command, strategy, matching, store,
                         exists_ret, ans, proceed, nb_identifiers,
                         download_identifiers, live, exit>>
       \/ Raise("download_notebooks")

\* A run whose guard said ABORT made to exit with an error status.
EndFailingOnAbort ==
    /\ pc = "end"
    /\ printed' = printed \cup {"KGTorrent end"}
    /\ pc' = "returned"
    /\ exit' = IF proceed THEN "ok" ELSE "exception"
    /\ UNCHANGED <<data, command, strategy, matching, store, archive,
                   exists_ret, ans, proceed, nb_identifiers,
                   download_identifiers, calls, live>>

\* time.sleep(0.2), print("## KGTorrent end") and the return of main() to
\* entry(), which prints the elapsed time; the interpreter then exits with
\* status 0.
End ==
    /\ pc = "end"
    /\ printed' = printed \cup {"KGTorrent end"}
    /\ pc' = "returned"
    /\ exit' = "ok"
    /\ UNCHANGED <<data, command, strategy, matching, store, archive,
                   exists_ret, ans, proceed, nb_identifiers,
                   download_identifiers, calls, live>>

Next ==
    \/ ParseArgs
    \/ Connect
    \/ DbExists
    \/ Confirm
    \/ FolderCheck
    \/ PreparationGate
    \/ LoadData
    \/ NewPreprocessor
    \/ PreprocessMk
    \/ CreateNewDb
    \/ WriteTables
    \/ SetForeignKeys
    \/ FreeMemory
    \/ DownloadGate
    \/ GetNbIdentifiers
    \/ DelDbEngine
    \/ SelectIdentifiers
    \/ NewDownloader
    \/ DownloadNotebooks
    \/ End

Spec == Init /\ [][Next]_vars

----------------------------------------------------------------------------
\* What the properties speak of.

Called(call) == \E i \in 1..Len(calls) : calls[i] = call

Count(call) == Cardinality({i \in 1..Len(calls) : calls[i] = call})

\* The guard stage is over: the folder check has set the final value of
\* `proceed`.
GuardDecided ==
    /\ Called("iterdir")
    /\ ~(pc = "raised" /\ calls[Len(calls)] = "iterdir")

\* The spellings of the affirmative token, whatever the case of a letter.
YesSpellings ==
    {a \in Seqs({"y", "Y", "e", "E", "s", "S"}, 3) :
        /\ Len(a) = 3
        /\ a[1] \in {"y", "Y"}
        /\ a[2] \in {"e", "E"}
        /\ a[3] \in {"s", "S"}}

\* The calls of the data preparation stage.
LoaderCalls == {"DataLoader"}
PreprocessorCalls == {"MK_PREPROCESSOR", "preprocess_mk"}
StoreWriteCalls == {"create_new_db", "write_tables", "set_foreign_keys"}
FetchCalls == {"DOWNLOADER", "download_notebooks"}

----------------------------------------------------------------------------
\* C1: in a run whose guard decided ABORT (`proceed` is not true), none of
\* create_new_db, write_tables, set_foreign_keys, get_nb_identifiers, the
\* Downloader's construction or download_notebooks has been called.
C1_AbortInvokesNothing ==
    (proceed # TRUE) =>
        \A call \in StoreWriteCalls \cup {"get_nb_identifiers"}
                        \cup FetchCalls : ~Called(call)

\* An aborted run that main() has carried to its end.
C1_Witness ==
    /\ pc = "returned"
    /\ GuardDecided
    /\ proceed = FALSE
    /\ command = REFRESH

\* C2: create_new_db is called in a run whose existence check found the store
\* only when the command is refresh and the answer, lower-cased, is "yes".
C2_DropOnlyOnConfirmedRefresh ==
    (Called("create_new_db") /\ exists_ret = TRUE) =>
        /\ command = REFRESH
        /\ ans \in YesSpellings

\* An existing store has been dropped and re-created.
C2_Witness ==
    /\ exists_ret = TRUE
    /\ Called("create_new_db")
    /\ store = "empty"

\* C3: init against an existing store ends the guard stage with ABORT,
\* whatever the archive holds.
C3_InitOnExistingAborts ==
    (GuardDecided /\ command = INIT /\ exists_ret = TRUE) => proceed = FALSE

\* init against an existing store, with an empty archive, after the guard.
C3_Witness ==
    /\ GuardDecided
    /\ command = INIT
    /\ exists_ret = TRUE
    /\ data = "None"
    /\ pc = "returned"

\* C4: refresh against an existing store ends the guard stage with PROCEED
\* exactly when the answer is a spelling of "yes", whatever the archive holds.
C4_RefreshProceedsIffYes ==
    (GuardDecided /\ command = REFRESH /\ exists_ret = TRUE) =>
        (proceed = TRUE <=> ans \in YesSpellings)

\* The answer "YEs" was accepted, with entries in the archive.
C4_Witness ==
    /\ GuardDecided
    /\ command = REFRESH
    /\ exists_ret = TRUE
    /\ ans = <<"Y", "E", "s">>
    /\ data = "entry"
    /\ proceed = TRUE

\* C5: the folder check sets `proceed` to false for init and download when
\* the archive has an entry, whatever the database check decided, and leaves
\* `proceed` as it was for refresh.
C5_FolderCheck ==
    [][(pc = "iterdir" /\ pc' = "preparation") =>
          /\ (command \in {INIT, DOWNLOAD} /\ archive = "nonempty")
                => proceed' = FALSE
          /\ command = REFRESH => proceed' = proceed]_vars

\* download, no store, entries in the archive: the database check said
\* PROCEED and the folder check overrode it.
C5_Witness ==
    /\ GuardDecided
    /\ command = DOWNLOAD
    /\ Called("db_exists")
    /\ exists_ret = FALSE
    /\ data = "entry"
    /\ proceed = FALSE

\* C6: download against an existing store with an empty archive is decided
\* PROCEED; a run of it that returns has queried the identifiers, has called
\* the Downloader unless the strategy is SKIP, and has prepared no data.
C6_DownloadOnExistingProceeds ==
    (GuardDecided /\ command = DOWNLOAD /\ exists_ret = TRUE
                  /\ data = "None") =>
        /\ proceed = TRUE
        /\ pc = "returned" =>
              /\ Called("get_nb_identifiers")
              /\ FetchRuns(strategy) => Called("download_notebooks")
              /\ \A call \in LoaderCalls \cup PreprocessorCalls
                                \cup StoreWriteCalls : ~Called(call)

\* C7: a download run calls neither the Loader nor the Preprocessor nor
\* create_new_db, write_tables or set_foreign_keys.
C7_DownloadPreparesNothing ==
    (command = DOWNLOAD) =>
        \A call \in LoaderCalls \cup PreprocessorCalls \cup StoreWriteCalls :
            ~Called(call)

\* A download run that passed the gate of the data preparation stage with
\* `proceed` true.
C7_Witness ==
    /\ command = DOWNLOAD
    /\ proceed = TRUE
    /\ Called("get_nb_identifiers")

C9_EmptyFilterDownloadsAll ==
    Called("DOWNLOADER") =>
        download_identifiers =
            IF matching = <<>> THEN nb_identifiers
                               ELSE nb_identifiers \cap ToSet(matching)

C11_SkipNeverFetches ==
    (strategy = SKIP) =>
        /\ \A call \in FetchCalls : ~Called(call)
        /\ pc \notin {"DOWNLOADER", "download_notebooks"}
        /\ "nb_identifiers" \in live =>
              /\ pc \in {"del_db_engine", "strategy", "end", "returned"}
              /\ pc = "returned" =>
                    (exit = "ok" /\ "KGTorrent end" \in printed)

\* init with SKIP, no store and an empty archive has prepared the store,
\* queried the identifiers and printed the completion report.
C11_Witness ==
    /\ strategy = SKIP
    /\ command = INIT
    /\ proceed = TRUE
    /\ Called("get_nb_identifiers")
    /\ pc = "returned"
    /\ "KGTorrent end" \in printed

\* The steps of the data preparation stage, in the order the stage is
\* described: Loader, Preprocessor, re-create, bulk write, constraints.
IsPreparationCall(call) ==
    call \in LoaderCalls \cup PreprocessorCalls \cup StoreWriteCalls

PreparationOrder ==
    <<"DataLoader", "MK_PREPROCESSOR", "preprocess_mk", "create_new_db",
      "write_tables", "set_foreign_keys">>

\* C12: the calls of the data preparation stage are made in the order Loader,
\* Preprocessor, re-create, bulk write, constraints, none of them twice; a
\* stage that ran to its end without failure has made each exactly once.
C12_PreparationOnceInOrder ==
    LET made == SelectSeq(calls, IsPreparationCall)
    IN  /\ Len(made) <= Len(PreparationOrder)
        /\ made = SubSeq(PreparationOrder, 1, Len(made))
        /\ (pc \in {"free", "download"} /\ Called("DataLoader")) =>
              made = PreparationOrder
        /\ (pc = "returned" /\ proceed = TRUE /\ command # DOWNLOAD) =>
              made = PreparationOrder

\* Scenario A: no store, empty archive, init, SKIP; the stage ran and the
\* run returned.
C12_Witness ==
    /\ pc = "returned"
    /\ command = INIT
    /\ strategy = SKIP
    /\ exists_ret = FALSE
    /\ data = "None"
    /\ store = "constrained"
    /\ SelectSeq(calls, IsPreparationCall) = PreparationOrder

\* The run is over.
Terminated == exit # "running"

\* The guard stage is over and said ABORT.
GuardAborted == GuardDecided /\ proceed = FALSE

\* The stages that apply to the run have all completed.
StagesCompleted ==
    /\ PreparationRuns(proceed, command) => Called("set_foreign_keys")
    /\ DownloadStageRuns(proceed) => Called("get_nb_identifiers")
    /\ (DownloadStageRuns(proceed) /\ FetchRuns(strategy)) =>
            Called("download_notebooks")

\* C13 as stated: a run whose guard said ABORT ends with an error outcome,
\* and a run ends with success only after its last stage has completed.
C13_AbortExitsWithError ==
    Terminated =>
        /\ GuardAborted => exit \in {"exception", "usage"}
        /\ exit = "ok" => (StagesCompleted /\ "KGTorrent end" \in printed)

\* C13 as amended: a run whose guard said ABORT calls nothing more, prints
\* the completion report and ends with the success outcome; a run ends with
\* success only after its stages have completed and the report is printed.
C13_AbortExitsOk ==
    /\ GuardAborted =>
          /\ pc \in {"preparation", "download", "end", "returned"}
          /\ calls[Len(calls)] = "iterdir"
          /\ Terminated => (exit = "ok" /\ "KGTorrent end" \in printed)
    /\ exit = "ok" =>
          /\ pc = "returned"
          /\ StagesCompleted
          /\ "KGTorrent end" \in printed

\* init against an existing store: the message was printed, the guard said
\* ABORT, and the process ended with status 0.
C13_Witness ==
    /\ GuardAborted
    /\ command = INIT
    /\ "database already exists" \in printed
    /\ exit = "ok"

\* C14: a command outside init, refresh, download or a strategy outside API,
\* HTTP, SKIP is rejected before anything is done: the run that ends with a
\* usage error has made no call, bound no local and printed no report, and
\* every run that has made a call has a command and a strategy of those sets.
C14_BadArgumentsRejectedFirst ==
    /\ exit = "usage" =>
          /\ pc = "usage_error"
          /\ calls = <<>>
          /\ live = {}
          /\ printed = {}
          /\ command = Unset /\ strategy = Unset
    /\ (pc # "parse_args" /\ exit # "usage") =>
          /\ command \in {"init", "refresh", "download"}
          /\ strategy \in {"API", "HTTP", "SKIP"}

\* parse_args() has rejected the arguments.
C14_Witness ==
    /\ pc = "usage_error"
    /\ exit = "usage"
    /\ calls = <<>>

\* The methods of the store adapter the controller calls.
StoreAdapterCalls ==
    {"db_exists", "get_nb_identifiers"} \cup StoreWriteCalls

\* The controller has dropped its reference to the store connection.
ConnectionReleased == "nb_identifiers" \in live /\ "db_engine" \notin live

\* C15: in a proceeding run the store connection is released after the
\* identifier query and before the strategy is looked at, so before any
\* Downloader is constructed or used, with SKIP as well; after the release
\* the only calls are the Downloader's.
C15_ConnectionReleasedBeforeFetch ==
    /\ (\/ pc \in {"strategy", "DOWNLOADER", "download_notebooks"}
        \/ \E call \in FetchCalls : Called(call)
        \/ pc \in {"end", "returned"} /\ proceed = TRUE) =>
            (ConnectionReleased /\ Called("get_nb_identifiers"))
    /\ ConnectionReleased =>
          \E i \in 1..Len(calls) :
              /\ calls[i] = "get_nb_identifiers"
              /\ \A j \in 1..Len(calls) :
                    /\ j > i => calls[j] \in FetchCalls
                    /\ calls[j] \in StoreAdapterCalls => j <= i

\* refresh with SKIP: the query is done, the connection is released, the
\* strategy is about to be looked at.
C15_Witness ==
    /\ pc = "strategy"
    /\ strategy = SKIP
    /\ command = REFRESH
    /\ ConnectionReleased
    /\ calls[Len(calls)] = "get_nb_identifiers"

\* db_engine.db_exists() has returned.
DbChecked ==
    /\ Called("db_exists")
    /\ ~(pc = "raised" /\ calls[Len(calls)] = "db_exists")

\* C16: when the store does not exist the database check decides PROCEED for
\* every command and nobody is prompted; download with no store and an empty
\* archive is not aborted by the guard, prepares nothing, goes on to the
\* identifier query and ends there with a stage failure.
C16_AbsentStoreProceeds ==
    (DbChecked /\ exists_ret = FALSE) =>
        /\ ~Called("input")
        /\ pc = "iterdir" => proceed = TRUE
        /\ (GuardDecided /\ data = "None") => proceed = TRUE
        /\ (GuardDecided /\ data = "None" /\ command = DOWNLOAD) =>
              /\ pc \in {"preparation", "download", "get_nb_identifiers",
                         "raised"}
              /\ \A i \in 1..Len(calls) : ~IsPreparationCall(calls[i])
              /\ Terminated =>
                    /\ exit = "exception"
                    /\ calls[Len(calls)] = "get_nb_identifiers"

\* download with no store and an empty archive has failed in the identifier
\* query.
C16_Witness ==
    /\ command = DOWNLOAD
    /\ DbChecked /\ exists_ret = FALSE
    /\ data = "None"
    /\ proceed = TRUE
    /\ pc = "raised"
    /\ calls[Len(calls)] = "get_nb_identifiers"

\* The call that raised, in a run that ended with an exception.
FailedCall == calls[Len(calls)]

\* The store as the steps completed before the failure left it.
StoreAsLeft ==
    CASE FailedCall = "set_foreign_keys" -> store = "tables"
      [] FailedCall = "write_tables" -> store \in {"empty", "partial"}
      [] FailedCall = "create_new_db" -> store \in {"absent", "old"}
      [] Called("set_foreign_keys") -> store = "constrained"
      [] OTHER -> IF DbChecked
                  THEN store = IF exists_ret THEN "old" ELSE "absent"
                  ELSE store \in {"absent", "old"}

\* C17: a failing step ends the run at once: the failed call is the last
\* call made and was made once, the store is as the completed steps left it,
\* the completion report is not printed, the outcome is an error, and no
\* step follows.
C17_FailurePropagates ==
    /\ [](exit = "exception" =>
            /\ pc = "raised"
            /\ "KGTorrent end" \notin printed
            /\ Count(FailedCall) = 1
            /\ StoreAsLeft)
    /\ [][exit # "exception"]_vars

\* write_tables failed after its first table: the run is over and the store
\* is half-populated.
C17_Witness ==
    /\ exit = "exception"
    /\ pc = "raised"
    /\ FailedCall = "write_tables"
    /\ store = "partial"

\* C18: the archive directory is not looked into by init once the store was
\* found to exist, nor by refresh at all.
C18_ArchiveInspectedOnlyWhenChecked ==
    (\/ command = REFRESH
     \/ command = INIT /\ DbChecked /\ exists_ret = TRUE) =>
        ~Called("iterdir")

\* C19: input() is called at most once in a run, only by refresh after the
\* store was found to exist, and before every call that changes the store.
C19_SinglePromptOnRefresh ==
    /\ Count("input") <= 1
    /\ pc = "input" => ~Called("input")
    /\ (Called("input") \/ pc = "input") =>
          (command = REFRESH /\ DbChecked /\ exists_ret = TRUE)
    /\ (command \in {INIT, DOWNLOAD} \/ (DbChecked /\ exists_ret = FALSE)) =>
          (~Called("input") /\ pc # "input")
    /\ \A i, j \in 1..Len(calls) :
          (calls[i] = "input" /\ calls[j] \in StoreWriteCalls) => i < j

\* The operator was asked, agreed, and the store has been re-created since.
C19_Witness ==
    /\ Count("input") = 1
    /\ command = REFRESH
    /\ Called("create_new_db")
    /\ store = "tables"

\* C20: in every state of the download stage that follows a data preparation
\* stage, neither the processed tables nor the Preprocessor is still bound.
C20_PreparationDataReleased ==
    (/\ Called("set_foreign_keys")
     /\ pc \in {"download", "get_nb_identifiers", "del_db_engine",
                "strategy", "DOWNLOADER", "download_notebooks"}) =>
        /\ "processed_dict" \notin live
        /\ "mk" \notin live

====
